---- MODULE Spec2Model ----
(***************************************************************************)
(* Traffic control tower: the ingest consumer (traffic-ingest) and its     *)
(* BatchWriter; the simulator (traffic-sim) with its schedule of movement, *)
(* position sync and broadcast over the road graph (traffic-common); the   *)
(* API service (traffic-api) with /map and the pub/sub fan-out to viewers. *)
(***************************************************************************)
EXTENDS Integers, Sequences, FiniteSets, TLC

\* ------------------------------------------------------------------ bounds

\* Messages the bus delivers in one run of the consumer.
MaxMsgs == 3
\* BatchWriter::new(pool, batch_size); main.rs passes 100, the model a small one.
BatchSize == 2
\* I/O failures (cold-store transaction, KV store) injected in one run.
MaxFaults == 2
\* spawn_vehicles_on_graph(world, graph, count); main.rs passes 5000.
SpawnCount == 2
\* Ticks over which two runs of the simulator are compared.
MaxTwinTicks == 2

\* Ticks of the simulator followed on the street of two edges.
MaxTraceTicks == 5

\* Points of a polyline passed to interpolate_along_polyline.
MaxPolyPoints == 3
\* Messages the pub/sub channel vehicles:update delivers in one run of the API.
MaxPubs == 3
\* broadcast::channel(capacity); the API's main.rs passes 1000.
ChannelCapacity == 2

\* ------------------------------------------------------------- wire records

Rec(id, lat, lon, spd, ts) ==
    [vehicle_id |-> id, latitude |-> lat, longitude |-> lon, speed |-> spd, timestamp |-> ts]

\* The VehiclePosition records the bus may carry.
Records ==
    { Rec("car_0", 52, 13, 10, 1), Rec("car_0", 53, 14, 12, 2), Rec("car_1", 52, 13, 10, 1) }

NoPayload == <<"none">>
Junk == <<"junk">>

\* prost encoding of a VehiclePosition, as the bytes of a message payload.
Encode(r) == <<"pb", r.vehicle_id, r.latitude, r.longitude, r.speed, r.timestamp>>

Payloads == {NoPayload, Junk} \cup {Encode(r) : r \in Records}

DecodeOk(p) == p[1] = "pb" /\ Len(p) = 6

\* VehiclePosition::decode(payload)
Decode(p) == Rec(p[2], p[3], p[4], p[5], p[6])

NoMsg == [offset |-> -1, payload |-> NoPayload]

\* ------------------------------------------------------------------ state

VARIABLES
    pc,         \* position of the ingest main(): the await it is suspended at
    branch,     \* the select! branch that is running: "loop" or "shutdown"
    offset,     \* offset of the next message of the topic
    cur,        \* the message the loop body is handling
    buffer,     \* BatchWriter.buffer
    txn,        \* rows inserted in the open cold-store transaction
    rows,       \* committed rows of vehicle_positions
    geo,        \* geo set vehicles:current, as <<member, <<lon, lat>>>> pairs
    meta,       \* string keys of the KV store, as <<key, value, ttl>>
    published,  \* payloads published on vehicles:update
    commits,    \* offsets passed to consumer.commit_message
    result,     \* what process() returned for cur
    outcome,    \* per offset: what the loop body did with the message
    accepted,   \* every record pushed by BatchWriter::add, in order
    lastDone,   \* record and hot state at the last Ok return of process()
    flushLog,   \* outcome of the shutdown branch's flush()
    faults,     \* failures injected so far
    simPc,      \* the simulator's main(): "spawn", "tick", "systems", "terminated"
    ways,       \* the drivable-or-not OSM ways of the loaded file
    edges,      \* RoadGraph.edges
    outEdges,   \* RoadGraph.out_edges
    vehicles,   \* the entities of the ECS world, in spawn order
    dt,         \* the DeltaTime resource
    pending,    \* systems of the schedule that have not run yet in this tick
    counter,    \* the BroadcastCounter resource
    tickNo,     \* number of the tick, counted 1..5 cyclically (0: no tick yet)
    sent,       \* records handed to the Kafka producer in this tick
    twin,       \* the entities of a second run of the simulator on the same file
    simSignal,  \* an interrupt signal has been delivered to the simulator
    poly,       \* a call of interpolate_along_polyline: arguments and result
    apiPc,      \* position of the API's main(): "start" or "serving"
    apiEdges,   \* edges of the RoadGraph the API loaded
    mapPoints,  \* AppState.map_points
    totalRoads, \* AppState.total_roads
    mapResp,    \* body of the last /map response, <<>> before the first one
    subPc,      \* position of the subscribe_redis task
    inbound,    \* payloads received on vehicles:update, in order
    chan,       \* every value sent on the broadcast channel, in order
    vstate,     \* per viewer: position of its handle_socket task
    next,       \* per viewer: position of its broadcast receiver in chan
    held,       \* per viewer: the value recv() returned, being sent
    open,       \* per viewer: the client's end of the socket is connected
    got,        \* per viewer: text frames delivered to the client, in order
    subAt,      \* per viewer: lengths of chan and inbound when it subscribed
    endedBy     \* per viewer: what ended its handle_socket task

ingestVars ==
    <<pc, branch, offset, cur, buffer, txn, rows, geo, meta, published, commits,
      result, outcome, accepted, lastDone, flushLog, faults>>

simVars ==
    <<simPc, ways, edges, outEdges, vehicles, dt, pending, counter, tickNo, sent, twin,
      simSignal, poly>>

apiVars ==
    <<apiPc, apiEdges, mapPoints, totalRoads, mapResp, subPc, inbound, chan,
      vstate, next, held, open, got, subAt, endedBy>>

vars == <<ingestVars, simVars, apiVars>>

NoDone == [rec |-> <<>>, geo |-> {}, meta |-> {}]

IngestInit ==
    /\ pc = "next"
    /\ branch = "loop"
    /\ offset = 0
    /\ cur = NoMsg
    /\ buffer = <<>>
    /\ txn = <<>>
    /\ rows = <<>>
    /\ geo = {}
    /\ meta = {}
    /\ published = <<>>
    /\ commits = {}
    /\ result = "none"
    /\ outcome = [o \in 0..(MaxMsgs - 1) |-> "none"]
    /\ accepted = <<>>
    /\ lastDone = NoDone
    /\ flushLog = "none"
    /\ faults = 0

\* ------------------------------------------------------- BatchWriter (cold)

\* A push that skips a record the buffer already holds.
PushDedup(buf, r) == IF \E i \in DOMAIN buf : buf[i] = r THEN buf ELSE Append(buf, r)

\* buffer.push(position)
Push(buf, r) == Append(buf, r)

\* A flush test that fires only at exactly batch_size.
BufferFullEq(buf) == Len(buf) = BatchSize

\* buffer.len() >= self.batch_size
BufferFull(buf) == Len(buf) >= BatchSize

\* The row one INSERT adds: (to_timestamp($1), $2, $3, $4, $5).
Row(r) ==
    [time |-> r.timestamp, vehicle_id |-> r.vehicle_id, latitude |-> r.latitude,
     longitude |-> r.longitude, speed |-> r.speed]

\* What a committed transaction leaves in the table.
CommitRows(table, tx) == table \o tx

\* buffer.clear()
Cleared(buf) == <<>>

\* ------------------------------------------------------------ KV store (hot)

\* GEOADD key lon lat member: the member is inserted or its coordinate replaced.
GeoUpsert(set, member, coord) ==
    {e \in set : e[1] # member} \cup {<<member, coord>>}

\* SETEX key ttl value
SetEx(set, key, value, ttl) ==
    {e \in set : e[1] # key} \cup {<<key, value, ttl>>}

\* A geo member that is new for every record of a vehicle.
GeoMemberPerRecord(r) == <<r.vehicle_id, r.timestamp>>

\* The member process() gives geo_add.
GeoMember(r) == r.vehicle_id

\* The coordinate process() gives geo_add: (longitude, latitude).
GeoCoord(r) == <<r.longitude, r.latitude>>

\* format!("vehicle:{}:meta", position.vehicle_id)
MetaKey(r) == <<"vehicle", r.vehicle_id, "meta">>

\* json!({"speed", "timestamp"})
MetaValue(r) == [speed |-> r.speed, timestamp |-> r.timestamp]

MetaTtl == 60

\* json!({"id", "lat", "lon", "speed"})
UpdatePayload(r) ==
    [id |-> r.vehicle_id, lat |-> r.latitude, lon |-> r.longitude, speed |-> r.speed]

\* Inserts run on the pool and not on the transaction: they stay when it is dropped.
RolledBackKept(table, tx) == table \o tx

\* A transaction dropped without commit is rolled back: the table keeps none of
\* its inserts (every INSERT runs on the transaction, `.execute(&mut *tx)`).
RolledBack(table, tx) == table

\* ------------------------------------------------------------ ingest main()

CurRec == Decode(cur.payload)

\* stream.next() yields Ok(msg): a message without payload or with a payload
\* that does not decode falls through the if-lets and the loop pulls again.
StreamNextMsg ==
    /\ branch = "loop"
    /\ pc = "next"
    /\ offset < MaxMsgs
    /\ \E p \in Payloads :
        /\ cur' = [offset |-> offset, payload |-> p]
        /\ IF p = NoPayload
           THEN /\ pc' = "next"
                /\ outcome' = [outcome EXCEPT ![offset] = "nopayload"]
           ELSE IF ~DecodeOk(p)
           THEN /\ pc' = "next"
                /\ outcome' = [outcome EXCEPT ![offset] = "malformed"]
           ELSE /\ pc' = "add"
                /\ outcome' = [outcome EXCEPT ![offset] = "processing"]
    /\ offset' = offset + 1
    /\ result' = "none"
    /\ UNCHANGED <<branch, buffer, txn, rows, geo, meta, published, commits,
                   accepted, lastDone, flushLog, faults>>
    /\ UNCHANGED <<simVars, apiVars>>

\* stream.next() yields Err(_): skipped by `if let Ok(msg)`.
StreamNextErr ==
    /\ branch = "loop"
    /\ pc = "next"
    /\ UNCHANGED ingestVars
    /\ UNCHANGED <<simVars, apiVars>>

\* stream.next() yields None: the while-let ends and main() returns, the
\* shutdown branch never runs.
StreamEnd ==
    /\ branch = "loop"
    /\ pc = "next"
    /\ pc' = "exited"
    /\ UNCHANGED <<branch, offset, cur, buffer, txn, rows, geo, meta, published,
                   commits, result, outcome, accepted, lastDone, flushLog, faults>>
    /\ UNCHANGED <<simVars, apiVars>>

\* process() step 1, BatchWriter::add up to the flush: push, then flush when full.
BatchAdd ==
    /\ branch = "loop"
    /\ pc = "add"
    /\ buffer' = Push(buffer, CurRec)
    /\ accepted' = Append(accepted, CurRec)
    /\ pc' = IF BufferFull(buffer') THEN "begin" ELSE "geo"
    /\ UNCHANGED <<branch, offset, cur, txn, rows, geo, meta, published, commits,
                   result, outcome, lastDone, flushLog, faults>>
    /\ UNCHANGED <<simVars, apiVars>>

\* flush_locked: self.pool.begin()
TxBegin ==
    /\ pc = "begin"
    /\ txn' = <<>>
    /\ pc' = "insert"
    /\ UNCHANGED <<branch, offset, cur, buffer, rows, geo, meta, published, commits,
                   result, outcome, accepted, lastDone, flushLog, faults>>
    /\ UNCHANGED <<simVars, apiVars>>

\* A loop that walks the buffer from its end.
NextBackwards(buf, tx) == buf[Len(buf) - Len(tx)]

\* The element `for pos in buffer.iter()` yields after Len(tx) INSERTs.
NextInBuffer(buf, tx) == buf[Len(tx) + 1]

\* flush_locked: one INSERT of the for loop, in buffer order.
TxInsert ==
    /\ pc = "insert"
    /\ Len(txn) < Len(buffer)
    /\ txn' = Append(txn, Row(NextInBuffer(buffer, txn)))
    /\ pc' = IF Len(txn') = Len(buffer) THEN "commit" ELSE "insert"
    /\ UNCHANGED <<branch, offset, cur, buffer, rows, geo, meta, published, commits,
                   result, outcome, accepted, lastDone, flushLog, faults>>
    /\ UNCHANGED <<simVars, apiVars>>

\* flush_locked: tx.commit() succeeds on the store.
TxCommit ==
    /\ pc = "commit"
    /\ rows' = CommitRows(rows, txn)
    /\ txn' = <<>>
    /\ pc' = "clear"
    /\ UNCHANGED <<branch, offset, cur, buffer, geo, meta, published, commits,
                   result, outcome, accepted, lastDone, flushLog, faults>>
    /\ UNCHANGED <<simVars, apiVars>>

\* flush_locked resumes after the commit: buffer.clear(), Ok(()) to the caller
\* (add, which goes on with the hot path, or the shutdown branch, which exits).
BufferClear ==
    /\ pc = "clear"
    /\ buffer' = Cleared(buffer)
    /\ IF branch = "loop"
       THEN pc' = "geo" /\ flushLog' = flushLog
       ELSE pc' = "exited" /\ flushLog' = "ok"
    /\ UNCHANGED <<branch, offset, cur, txn, rows, geo, meta, published, commits,
                   result, outcome, accepted, lastDone, faults>>
    /\ UNCHANGED <<simVars, apiVars>>

\* A process() that logs the error of add() and goes on with the hot path.
AfterAddErrorGoOn == "geo"

\* self.batch_writer.add(position.clone()).await?: the error of add() is
\* returned from process() before any hot-path call.
AfterAddError == "ret"

\* flush_locked: begin, an INSERT or the commit fails; `?` returns the error, the
\* transaction is dropped and the buffer is left as it is.
TxFail ==
    /\ pc \in {"begin", "insert", "commit"}
    /\ faults < MaxFaults
    /\ faults' = faults + 1
    /\ rows' = RolledBack(rows, txn)
    /\ txn' = <<>>
    /\ IF branch = "loop"
       THEN /\ result' = "err"
            /\ pc' = AfterAddError
            /\ lastDone' = NoDone
            /\ flushLog' = flushLog
       ELSE /\ flushLog' = "err"
            /\ pc' = "exited"
            /\ UNCHANGED <<result, lastDone>>
    /\ UNCHANGED <<branch, offset, cur, buffer, geo, meta, published, commits,
                   outcome, accepted>>
    /\ UNCHANGED <<simVars, apiVars>>

\* A process() that publishes right after the geo add.
AfterGeoAddPublish == "publish"

\* The call that follows geo_add in process(): set_ex of the metadata.
AfterGeoAdd == "meta"

\* process() step 2: geo_add("vehicles:current", (lon, lat, vehicle_id))
GeoAdd ==
    /\ branch = "loop"
    /\ pc = "geo"
    /\ geo' = GeoUpsert(geo, GeoMember(CurRec), GeoCoord(CurRec))
    /\ pc' = AfterGeoAdd
    /\ UNCHANGED <<branch, offset, cur, buffer, txn, rows, meta, published, commits,
                   result, outcome, accepted, lastDone, flushLog, faults>>
    /\ UNCHANGED <<simVars, apiVars>>

\* process() step 3: set_ex("vehicle:{id}:meta", metadata, 60)
MetaSet ==
    /\ branch = "loop"
    /\ pc = "meta"
    /\ meta' = SetEx(meta, MetaKey(CurRec), MetaValue(CurRec), MetaTtl)
    /\ pc' = "publish"
    /\ UNCHANGED <<branch, offset, cur, buffer, txn, rows, geo, published, commits,
                   result, outcome, accepted, lastDone, flushLog, faults>>
    /\ UNCHANGED <<simVars, apiVars>>

\* process() step 4: publish("vehicles:update", payload), then Ok(()).
Publish ==
    /\ branch = "loop"
    /\ pc = "publish"
    /\ published' = Append(published, UpdatePayload(CurRec))
    /\ result' = "ok"
    /\ lastDone' = [rec |-> CurRec, geo |-> geo, meta |-> meta]
    /\ pc' = "ret"
    /\ UNCHANGED <<branch, offset, cur, buffer, txn, rows, geo, meta, commits,
                   outcome, accepted, flushLog, faults>>
    /\ UNCHANGED <<simVars, apiVars>>

\* A hot path that takes the record's geo member out again when a step fails.
GeoUndone(g, rec) == {e \in g : e[1] # GeoMember(rec)}

\* The geo set after a failed step of process(): `?` returns the error and
\* nothing is issued to undo the calls that went through.
GeoAfterError(g, rec) == g

\* process(): one of the three KV calls fails; `?` returns the error.
RedisFail ==
    /\ branch = "loop"
    /\ pc \in {"geo", "meta", "publish"}
    /\ faults < MaxFaults
    /\ faults' = faults + 1
    /\ result' = "err"
    /\ lastDone' = NoDone
    /\ pc' = "ret"
    /\ geo' = GeoAfterError(geo, CurRec)
    /\ UNCHANGED <<branch, offset, cur, buffer, txn, rows, meta, published,
                   commits, outcome, accepted, flushLog>>
    /\ UNCHANGED <<simVars, apiVars>>

\* A loop body that returns the error of process() with `?`.
AfterProcessPropagate(res) == IF res = "err" THEN "exited" ELSE "next"

\* Where the loop body goes once process() has returned: an error is logged and
\* the while-let pulls the next message.
AfterProcess(res) == "next"

\* The loop body after process() returns: log an error, then
\* consumer.commit_message(&msg, CommitMode::Async), whatever process() returned.
CommitMessage ==
    /\ branch = "loop"
    /\ pc = "ret"
    /\ outcome' = [outcome EXCEPT ![cur.offset] = result]
    /\ commits' = commits \cup {cur.offset}
    /\ pc' = AfterProcess(result)
    /\ UNCHANGED <<branch, offset, cur, buffer, txn, rows, geo, meta, published,
                   result, accepted, lastDone, flushLog, faults>>
    /\ UNCHANGED <<simVars, apiVars>>

\* A shutdown branch that exits without the flush.
ShutdownNoFlush(buf) == "exited"

\* Where the shutdown branch starts: flush() returns Ok at once on an empty
\* buffer and runs the transaction otherwise.
ShutdownPc(buf) == IF buf = <<>> THEN "exited" ELSE "begin"

\* ctrl_c completes: select! drops the loop future at the await it is suspended
\* at (an open transaction is dropped with it) and runs the shutdown branch.
Shutdown ==
    /\ branch = "loop"
    /\ pc # "exited"
    /\ branch' = "shutdown"
    /\ rows' = RolledBack(rows, txn)
    /\ txn' = <<>>
    /\ pc' = ShutdownPc(buffer)
    /\ flushLog' = IF pc' = "exited" THEN "ok" ELSE flushLog
    /\ UNCHANGED <<offset, cur, buffer, geo, meta, published, commits, result,
                   outcome, accepted, lastDone, faults>>
    /\ UNCHANGED <<simVars, apiVars>>

IngestNext ==
    \/ StreamNextMsg
    \/ StreamNextErr
    \/ StreamEnd
    \/ BatchAdd
    \/ TxBegin
    \/ TxInsert
    \/ TxCommit
    \/ BufferClear
    \/ TxFail
    \/ GeoAdd
    \/ MetaSet
    \/ Publish
    \/ RedisFail
    \/ CommitMessage
    \/ Shutdown

\* No call of interpolate_along_polyline under way.
NoPoly == [geometry |-> <<>>, progress |-> <<0, 1>>, point |-> <<>>]

\* The simulator before its main() has run.
SimIdle ==
    /\ simPc = "off"
    /\ ways = <<>>
    /\ edges = <<>>
    /\ outEdges = <<>>
    /\ vehicles = <<>>
    /\ dt = 0
    /\ pending = {}
    /\ counter = 0
    /\ tickNo = 0
    /\ sent = <<>>
    /\ twin = <<>>
    /\ simSignal = FALSE
    /\ poly = NoPoly

\* The viewers that may connect to /ws.
Viewers == {"v1", "v2"}

\* The API service before its main() has run.
ApiIdle ==
    /\ apiPc = "off"
    /\ apiEdges = <<>>
    /\ mapPoints = <<>>
    /\ totalRoads = 0
    /\ mapResp = <<>>
    /\ subPc = "off"
    /\ inbound = <<>>
    /\ chan = <<>>
    /\ vstate = [v \in Viewers |-> "none"]
    /\ next = [v \in Viewers |-> 0]
    /\ held = [v \in Viewers |-> ""]
    /\ open = [v \in Viewers |-> FALSE]
    /\ got = [v \in Viewers |-> <<>>]
    /\ subAt = [v \in Viewers |-> <<0, 0>>]
    /\ endedBy = [v \in Viewers |-> "none"]

IngestSpecInit == IngestInit /\ SimIdle /\ ApiIdle

IngestSpec == IngestSpecInit /\ [][IngestNext]_vars

\* ------------------------------------------------------- ingest properties

Count(s, x) == Cardinality({i \in DOMAIN s : s[i] = x})

BatchRows(buf) == [i \in 1..Len(buf) |-> Row(buf[i])]

IsSuffix(t, s) ==
    /\ Len(t) <= Len(s)
    /\ \A i \in 1..Len(t) : s[Len(s) - Len(t) + i] = t[i]

\* The consumer position the broker holds: a commit of offset o covers every
\* message up to o.
CommittedPosition ==
    IF commits = {} THEN 0 ELSE (CHOOSE o \in commits : \A q \in commits : q <= o) + 1

\* C1: an offset is committed only for a message whose process() returned Ok;
\* no commit is issued for a message whose process() returned an error.
CommitOnlyAfterSuccess ==
    \A o \in commits : outcome[o] = "ok"

\* C2: a message whose payload does not decode is dropped without process()
\* and its offset is committed once the loop body is through with it.
MalformedIsCommitted ==
    \A o \in 0..(MaxMsgs - 1) :
        outcome[o] = "malformed" => o < CommittedPosition

\* C3: an error of process() does not end the service: unless the interrupt
\* arrives, the loop body goes back to stream.next() and the service has not exited.
ProcessErrorKeepsLoop ==
    [][(pc = "ret" /\ result = "err" /\ branch' = "loop")
         => (pc' = "next" /\ offset' = offset)]_vars

ProcessErrorKeepsLoopWitness ==
    /\ branch = "loop"
    /\ pc = "add"
    /\ \E o \in 0..(MaxMsgs - 1) : outcome[o] = "err" /\ o < cur.offset

FailedFlushRetried ==
    [][/\ ((branch = "loop" /\ pc \in {"begin", "insert", "commit"} /\ pc' = "ret")
             => (result' = "err" /\ buffer' = buffer /\ BufferFull(buffer')))
       /\ ((pc = "add" /\ Len(buffer) >= BatchSize /\ branch' = "loop")
             => (pc' = "begin" /\ buffer' = Append(buffer, CurRec)))]_vars

FailedFlushRetriedWitness ==
    /\ branch = "loop"
    /\ pc = "commit"
    /\ Len(buffer) > BatchSize
    /\ txn = BatchRows(buffer)

\* Every record add() accepted is a committed row, as often as it was accepted.
AllAcceptedCommitted ==
    \A r \in Records : Count(accepted, r) <= Count(rows, Row(r))

HotPathLastWriterWins ==
    /\ []((pc = "ret" /\ result = "ok") =>
            /\ {e \in geo : e[1] = CurRec.vehicle_id}
                 = {<<CurRec.vehicle_id, <<CurRec.longitude, CurRec.latitude>>>>}
            /\ {e \in meta : e[1] = <<"vehicle", CurRec.vehicle_id, "meta">>}
                 = {<<<<"vehicle", CurRec.vehicle_id, "meta">>,
                      [speed |-> CurRec.speed, timestamp |-> CurRec.timestamp], 60>>})
    /\ [][(pc = "publish" /\ pc' = "ret" /\ result' = "ok" /\ lastDone.rec = CurRec)
            => (geo' = lastDone.geo /\ meta' = lastDone.meta)]_vars

HotPathLastWriterWinsWitness ==
    /\ pc = "ret"
    /\ result = "ok"
    /\ Len(published) >= 2
    /\ published[Len(published)] = published[Len(published) - 1]
    /\ Cardinality(geo) = 1

\* C8: the cold path keeps duplicates: a record is in the buffer and the table
\* together at least as often as it was handed to add(), and exactly as often
\* while the consumer loop runs and no commit is waiting for its buffer.clear().
ColdPathKeepsDuplicates ==
    \A r \in Records :
        /\ Count(accepted, r) <= Count(buffer, r) + Count(rows, Row(r))
        /\ (branch = "loop" /\ pc # "clear")
             => Count(accepted, r) = Count(buffer, r) + Count(rows, Row(r))

ColdPathKeepsDuplicatesWitness ==
    \E r \in Records :
        /\ Count(accepted, r) = 2
        /\ Count(rows, Row(r)) = 2
        /\ buffer = <<>>

\* ------------------------------------------------------ road graph loader

\* Positions of the OSM nodes of the file (lon, lat), on a grid whose ways run
\* along the axes; node 4 lies on node 2. Nodes 21 to 23 are those of a street
\* with one edge of length 100 followed by one of length 50.
NodePos == (1 :> <<0, 0>>) @@ (2 :> <<2, 0>>) @@ (3 :> <<2, 3>>) @@ (4 :> <<2, 0>>)
             @@ (6 :> <<0, 3>>)
             @@ (21 :> <<0, 0>>) @@ (22 :> <<100, 0>>) @@ (23 :> <<100, 50>>)

Way(id, ns, hw) == [id |-> id, nodes |-> ns, highway |-> hw]

\* The files the simulator may be started on: a dead-end street, a ring with a
\* zero-length spur, no drivable way at all, a way with an unresolved node.
Maps ==
    { <<Way(10, <<1, 2, 3>>, "residential")>>,
      <<Way(10, <<1, 2, 3, 6, 1>>, "primary"), Way(11, <<2, 4>>, "service")>>,
      <<Way(10, <<1, 2, 3>>, "footway")>>,
      <<Way(10, <<1, 9, 2>>, "tertiary"), Way(11, <<2, 3, 2>>, "residential")>> }

is_drivable(highway_type) ==
    highway_type \in {"motorway", "trunk", "primary", "secondary", "tertiary",
                      "residential", "service", "living_street"}

Abs(x) == IF x < 0 THEN -x ELSE x

\* p1.haversine_distance(&p2), for two points of an axis-parallel segment.
Distance(p1, p2) == Abs(p2[1] - p1[1]) + Abs(p2[2] - p1[2])

\* The edges one way gives: one per window of two nodes that are both known.
WayEdges(w) ==
    IF ~is_drivable(w.highway) THEN <<>>
    ELSE LET windows == SelectSeq([i \in 1..(Len(w.nodes) - 1) |-> <<w.nodes[i], w.nodes[i + 1]>>],
                                  LAMBDA win : win[1] \in DOMAIN NodePos /\ win[2] \in DOMAIN NodePos)
         IN [i \in 1..Len(windows) |->
                [id |-> w.id, start |-> windows[i][1], end |-> windows[i][2],
                 length |-> Distance(NodePos[windows[i][1]], NodePos[windows[i][2]]),
                 geometry |-> <<NodePos[windows[i][1]], NodePos[windows[i][2]]>>,
                 highway_type |-> w.highway]]

RECURSIVE LoadEdges(_)
\* load_from_pbf, second pass: the edges of all ways, in the order of the ways.
LoadEdges(ws) ==
    IF ws = <<>> THEN <<>> ELSE WayEdges(Head(ws)) \o LoadEdges(Tail(ws))

\* An adjacency list that holds one-based edge numbers.
PushedIndexOneBased(index) == index + 1

\* The value pushed for the edge at `index` (of enumerate(), from 0).
PushedIndex(index) == index

RECURSIVE BuildOutEdges(_, _)
\* load_from_pbf, adjacency list after the first n edges:
\* out_edges.entry(road.start).or_default().push(index)
BuildOutEdges(es, n) ==
    IF n = 0 THEN <<>>
    ELSE LET prev == BuildOutEdges(es, n - 1)
             start == es[n].start
         IN IF start \in DOMAIN prev
            THEN [prev EXCEPT ![start] = Append(@, PushedIndex(n - 1))]
            ELSE prev @@ (start :> <<PushedIndex(n - 1)>>)

\* ------------------------------------------------------------- simulator

\* TargetSpeed values (rng.gen_range(10.0..20.0)), in model units per second.
Speeds == {1, 2}

\* DeltaTime values of a tick: elapsed real time times time_scale, never negative.
Dts == {0, 1}

\* Values rand::random::<usize>() may return (one of them beyond any list length).
Rands == {0, 3}

\* graph.edges.get(i)
HasEdge(i) == i >= 0 /\ i < Len(edges)

EdgeAt(i) == edges[i + 1]

\* A spawn that numbers the vehicles from 1.
SpawnedVehicleOneBased(i, edge_idx, speed) ==
    [id |-> "car_" \o ToString(i + 1),
     pos |-> edges[edge_idx + 1].geometry[1],
     edge_index |-> edge_idx,
     distance |-> 0,
     velocity |-> <<0, 0>>,
     target_speed |-> speed]

\* Position(Vec2::new(start_pos.x as f32, start_pos.y as f32))
SpawnedVehicle(i, edge_idx, speed) ==
    [id |-> "car_" \o ToString(i),
     pos |-> EdgeAt(edge_idx).geometry[1],
     edge_index |-> edge_idx,
     distance |-> 0,
     velocity |-> <<0, 0>>,
     target_speed |-> speed]

\* f64::NAN as a coordinate; no coordinate of NodePos comes near it.
NaN == -1000

\* (graph_pos.distance / road.length).clamp(0.0, 1.0) as a fraction
\* <<numerator, denominator>>: 0.0 / 0.0 is NaN (<<0, 0>>), which clamp() returns
\* as it is; x / 0.0 for x > 0 is infinite and clamps to 1.
Progress(distance, length) ==
    IF length = 0
    THEN IF distance = 0 THEN <<0, 0>> ELSE IF distance > 0 THEN <<1, 1>> ELSE <<0, 1>>
    ELSE IF distance <= 0 THEN <<0, 1>>
         ELSE IF distance >= length THEN <<1, 1>>
         ELSE <<distance, length>>

\* start + (end - start) * progress; every product with NaN is NaN.
Lerp(start, end, progress) ==
    IF progress[2] = 0 THEN <<NaN, NaN>>
    ELSE <<start[1] + ((end[1] - start[1]) * progress[1]) \div progress[2],
           start[2] + ((end[2] - start[2]) * progress[1]) \div progress[2]>>

\* (geometry[i + 1] - geometry[i]).length(), for an axis-parallel segment.
SegLength(p, q) == Abs(q[1] - p[1]) + Abs(q[2] - p[2])

RECURSIVE TotalLength(_)
TotalLength(geometry) ==
    IF Len(geometry) < 2 THEN 0
    ELSE SegLength(geometry[1], geometry[2]) + TotalLength(Tail(geometry))

\* An offset into the segment measured from the start of the polyline.
SegmentOffsetFromStart(target, acc) == target[1]

\* target_distance - accumulated_distance, over the denominator of target
SegmentOffset(target, acc) == target[1] - acc * target[2]

RECURSIVE AlongSegments(_, _, _, _)
\* The loop of interpolate_along_polyline from segment i on, `acc` being the
\* accumulated distance and target = progress * total_length a fraction; a NaN
\* target compares false with everything, so the loop runs to its end.
AlongSegments(geometry, i, acc, target) ==
    IF i > Len(geometry) - 1 THEN geometry[Len(geometry)]
    ELSE LET seg_len == SegLength(geometry[i], geometry[i + 1])
         IN IF target[2] # 0 /\ (acc + seg_len) * target[2] >= target[1]
            THEN IF seg_len > 0
                 THEN Lerp(geometry[i], geometry[i + 1],
                           <<SegmentOffset(target, acc), target[2] * seg_len>>)
                 ELSE geometry[i]
            ELSE AlongSegments(geometry, i + 1, acc + seg_len, target)

interpolate_along_polyline(geometry, progress) ==
    IF Len(geometry) < 2 THEN geometry[1]
    ELSE IF TotalLength(geometry) = 0 THEN geometry[1]
    ELSE AlongSegments(geometry, 1, 0, <<progress[1] * TotalLength(geometry), progress[2]>>)

\* The body of sync_position_system's loop: the Position it leaves for a vehicle.
SyncedPos(v) ==
    IF ~HasEdge(v.edge_index) THEN v.pos
    ELSE LET road == EdgeAt(v.edge_index)
         IN IF Len(road.geometry) >= 2
            THEN LET progress == Progress(v.distance, road.length)
                 IN IF Len(road.geometry) = 2
                    THEN Lerp(road.geometry[1], road.geometry[2], progress)
                    ELSE interpolate_along_polyline(road.geometry, progress)
            ELSE v.pos

\* if counter.0 < 5 { return; }
BroadcastEvery == 5

\* FutureRecord::to(..).key(..) of broadcast_system.
BroadcastTopic == "traffic.updates"
BroadcastKey == "berlin_center"

\* consumer.subscribe(&["raw-telemetry"]) of the ingest service.
SubscribedTopic == "raw-telemetry"

\* vel.0.length(), for a vector along an axis.
VecLength(vel) == Abs(vel[1]) + Abs(vel[2])

VehicleUpdate(v) ==
    [vehicle_id |-> v.id, latitude |-> v.pos[2], longitude |-> v.pos[1],
     speed |-> VecLength(v.velocity), heading |-> 0]

\* prost encoding of a TrafficUpdate, as the bytes of a message payload.
EncodeTrafficUpdate(updates, timestamp) == <<"pb_traffic_update", updates, timestamp>>

\* A rate gate that lets through the run after the fifth.
CounterDueLate(c) == c > BroadcastEvery

\* The negation of `counter.0 < 5`, on the counter just incremented.
CounterDue(c) == ~(c < BroadcastEvery)

\* The names of the systems added to the schedule.
Systems == {"movement", "sync", "broadcast"}

\* main() up to the spawn: the map is loaded and the adjacency list built,
\* DeltaTime and BroadcastCounter are inserted, the schedule is built.
SimInit ==
    /\ simPc = "spawn"
    /\ ways \in Maps
    /\ edges = LoadEdges(ways)
    /\ outEdges = BuildOutEdges(edges, Len(edges))
    /\ vehicles = <<>>
    /\ dt = 0
    /\ pending = {}
    /\ counter = 0
    /\ tickNo = 0
    /\ sent = <<>>
    /\ twin = <<>>
    /\ simSignal = FALSE
    /\ poly = NoPoly

\* The vehicles spawn_vehicles_on_graph leaves in the world when its i-th
\* gen_range calls return pick[i] and speed[i]: one per i in 0..count, an edge
\* without geometry skipped.
Spawned(pick, speed) ==
    LET all == [k \in 1..SpawnCount |-> k - 1]
        kept == SelectSeq(all, LAMBDA i : EdgeAt(pick[i]).geometry # <<>>)
    IN [k \in 1..Len(kept) |-> SpawnedVehicle(kept[k], pick[kept[k]], speed[kept[k]])]

\* spawn_vehicles_on_graph: nothing on a graph without edges; otherwise one
\* vehicle per i in 0..count on a random edge, with a random target speed.
Spawn ==
    /\ simPc = "spawn"
    /\ IF Len(edges) = 0
       THEN vehicles' = <<>>
       ELSE \E pick \in [0..(SpawnCount - 1) -> 0..(Len(edges) - 1)],
               speed \in [0..(SpawnCount - 1) -> Speeds] :
               vehicles' = Spawned(pick, speed)
    /\ simPc' = "tick"
    /\ UNCHANGED <<simSignal, poly, ways, edges, outEdges, dt, pending, counter, tickNo, sent, twin>>
    /\ UNCHANGED <<ingestVars, apiVars>>

\* The loop of main(): DeltaTime is set from the elapsed time, then
\* schedule.run(&mut world) starts with all three systems to run.
TickStart ==
    /\ simPc = "tick"
    /\ dt' \in Dts
    /\ simPc' = "systems"
    /\ pending' = Systems
    /\ tickNo' = IF tickNo = BroadcastEvery THEN 1 ELSE tickNo + 1
    /\ sent' = <<>>
    /\ UNCHANGED <<simSignal, poly, ways, edges, outEdges, vehicles, counter, twin>>
    /\ UNCHANGED <<ingestVars, apiVars>>

\* A schedule whose systems are chained: a system is ready when those added
\* before it have run.
ReadyChained(system, pend) ==
    /\ system \in pend
    /\ system = "sync" => "movement" \notin pend
    /\ system = "broadcast" => "movement" \notin pend /\ "sync" \notin pend

\* schedule.add_systems((movement_system, sync_position_system,
\* broadcast_system)): the tuple carries no ordering constraint, so in a run of
\* the schedule any system that has not run yet may be the next one.
Ready(system, pend) == system \in pend

\* The position of main() once `system` has run: back in the loop when it was
\* the last one of the schedule.
AfterSystem(system) == IF pending \ {system} = {} THEN "tick" ELSE "systems"

\* next_edges[rand::random::<usize>() % next_edges.len()]
PickNext(next_edges, rnd) == next_edges[(rnd % Len(next_edges)) + 1]

\* A dead end that keeps the distance travelled.
DeadEndKeep(road, d) == d

\* A dead end that puts the vehicle back at the start of its edge.
DeadEndRestart(road, d) == 0

\* graph_pos.distance = road.length
DeadEndDistance(road, d) == road.length

\* A transition that carries the distance beyond the end over to the next edge.
TransitionCarry(road, d) == d - road.length

\* graph_pos.distance = 0.0 when the vehicle moves onto the next edge
TransitionDistance(road, d) == 0

\* if let Some(next_edges) = graph.out_edges.get(&road.end) with a non-empty list
HasNext(road) == road.end \in DOMAIN outEdges /\ outEdges[road.end] # <<>>

\* A system that puts a vehicle without an edge back on edge 0.
SkippedReset(v) == [v EXCEPT !.edge_index = 0, !.distance = 0]

\* graph.edges.get(graph_pos.edge_index) is None: the `if let Some(road)` body
\* is not entered and the components stay as they are.
Skipped(v) == v

\* The body of movement_system's loop for one vehicle; rnd is the random usize.
Moved(v, rnd) ==
    IF ~HasEdge(v.edge_index) THEN Skipped(v)
    ELSE LET road == EdgeAt(v.edge_index)
             d == v.distance + v.target_speed * dt
         IN IF d >= road.length
            THEN IF HasNext(road)
                 THEN [v EXCEPT !.edge_index = PickNext(outEdges[road.end], rnd),
                                !.distance = TransitionDistance(road, d)]
                 ELSE [v EXCEPT !.distance = DeadEndDistance(road, d)]
            ELSE [v EXCEPT !.distance = d]

\* movement_system: every vehicle with (GraphPosition, TargetSpeed) is advanced.
MovementSystem ==
    /\ simPc = "systems"
    /\ Ready("movement", pending)
    /\ \E rnd \in [1..Len(vehicles) -> Rands] :
          vehicles' = [k \in 1..Len(vehicles) |-> Moved(vehicles[k], rnd[k])]
    /\ pending' = pending \ {"movement"}
    /\ simPc' = AfterSystem("movement")
    /\ UNCHANGED <<simSignal, poly, ways, edges, outEdges, dt, counter, tickNo, sent, twin>>
    /\ UNCHANGED <<ingestVars, apiVars>>

\* A sync that also derives the Velocity from the target speed.
SyncedWithVelocity(v) ==
    [v EXCEPT !.pos = SyncedPos(v), !.velocity = <<v.target_speed, 0>>]

\* Query<(&GraphPosition, &mut Position)>: of the components of a vehicle the
\* loop of sync_position_system writes the Position alone.
Synced(v) == [v EXCEPT !.pos = SyncedPos(v)]

\* sync_position_system: the Position of every vehicle is set from its
\* GraphPosition.
SyncPositionSystem ==
    /\ simPc = "systems"
    /\ Ready("sync", pending)
    /\ vehicles' = [k \in 1..Len(vehicles) |-> Synced(vehicles[k])]
    /\ pending' = pending \ {"sync"}
    /\ simPc' = AfterSystem("sync")
    /\ UNCHANGED <<simSignal, poly, ways, edges, outEdges, dt, counter, tickNo, sent, twin>>
    /\ UNCHANGED <<ingestVars, apiVars>>

\* broadcast_system: the counter is advanced; on the run that brings it to 5
\* it is reset and one TrafficUpdate with a VehicleUpdate per vehicle is handed
\* to the producer, unless there is no vehicle.
BroadcastSystem ==
    /\ simPc = "systems"
    /\ Ready("broadcast", pending)
    /\ IF ~CounterDue(counter + 1)
       THEN /\ counter' = counter + 1
            /\ sent' = sent
       ELSE /\ counter' = 0
            /\ LET updates == [k \in 1..Len(vehicles) |-> VehicleUpdate(vehicles[k])]
               IN IF updates = <<>>
                  THEN sent' = sent
                  ELSE sent' = Append(sent, [topic |-> BroadcastTopic,
                                             key |-> BroadcastKey,
                                             payload |-> EncodeTrafficUpdate(updates, 0)])
    /\ pending' = pending \ {"broadcast"}
    /\ simPc' = AfterSystem("broadcast")
    /\ UNCHANGED <<simSignal, poly, ways, edges, outEdges, vehicles, dt, tickNo, twin>>
    /\ UNCHANGED <<ingestVars, apiVars>>

\* A process that ignores the signal and goes on from where it stands.
SignalIgnored(at) == at

\* What an interrupt signal does to the process: main() registers no handler for
\* it, so the signal's default action ends the process wherever the loop stands.
SignalDisposition(at) == "terminated"

\* An interrupt signal is delivered to the running simulator. The process ends
\* and its World goes with it; nothing of main() runs afterwards.
Interrupt ==
    /\ simPc \notin {"off", "terminated"}
    /\ simSignal' = TRUE
    /\ simPc' = SignalDisposition(simPc)
    /\ vehicles' = <<>>
    /\ pending' = {}
    /\ sent' = <<>>
    /\ UNCHANGED <<poly, ways, edges, outEdges, dt, counter, tickNo, twin>>
    /\ UNCHANGED <<ingestVars, apiVars>>

SimNext ==
    \/ Spawn
    \/ TickStart
    \/ MovementSystem
    \/ SyncPositionSystem
    \/ BroadcastSystem
    \/ Interrupt

SimSpecInit == SimInit /\ IngestInit /\ ApiIdle

SimSpec == SimSpecInit /\ [][SimNext]_vars

\* The ring with its spur.
RingMap == CHOOSE w \in Maps : Len(LoadEdges(w)) = 5

\* A world as a caller of the systems may build it: on the ring, car_0 carries
\* an edge_index that is not an index of graph.edges, and a Position of its
\* own; the other vehicles stand where a spawn puts them.
StrayInit ==
    /\ simPc = "tick"
    /\ ways = RingMap
    /\ edges = LoadEdges(ways)
    /\ outEdges = BuildOutEdges(edges, Len(edges))
    /\ \E stray \in {Len(edges), Len(edges) + 3},
          pick \in [1..(SpawnCount - 1) -> 0..(Len(edges) - 1)],
          speed \in [0..(SpawnCount - 1) -> Speeds] :
          vehicles = [k \in 1..SpawnCount |->
                        IF k = 1
                        THEN [id |-> "car_0", pos |-> <<7, 7>>, edge_index |-> stray,
                              distance |-> 1, velocity |-> <<0, 0>>,
                              target_speed |-> speed[0]]
                        ELSE SpawnedVehicle(k - 1, pick[k - 1], speed[k - 1])]
    /\ dt = 0
    /\ pending = {}
    /\ counter = 0
    /\ tickNo = 0
    /\ sent = <<>>
    /\ twin = <<>>
    /\ simSignal = FALSE
    /\ poly = NoPoly

StrayNext ==
    \/ TickStart
    \/ MovementSystem
    \/ SyncPositionSystem
    \/ BroadcastSystem

StraySpecInit == StrayInit /\ IngestInit /\ ApiIdle

StraySpec == StraySpecInit /\ [][StrayNext]_vars

\* Coordinates of the points of a polyline, on a grid of half units.
PolyCoords == {0, 6, 8}

\* The geometries passed to interpolate_along_polyline: 2 to MaxPolyPoints
\* points, consecutive points on a common axis (or equal).
Geometries ==
    {g \in UNION {[1..n -> PolyCoords \X PolyCoords] : n \in 2..MaxPolyPoints} :
        \A i \in 1..(Len(g) - 1) : g[i][1] = g[i + 1][1] \/ g[i][2] = g[i + 1][2]}

\* The progress values passed, as fractions within [0, 1].
Progresses == {<<0, 1>>, <<1, 4>>, <<1, 2>>, <<3, 4>>, <<1, 1>>}

\* The target distance progress * total_length is a whole number of half units.
ExactTarget(g, p) == (p[1] * TotalLength(g)) % p[2] = 0

\* A call of interpolate_along_polyline that has not returned.
PolyCall(g, p) == [geometry |-> g, progress |-> p, point |-> <<>>]

\* A caller about to call interpolate_along_polyline(geometry, progress).
PolyInit ==
    /\ \E g \in Geometries, p \in Progresses :
          ExactTarget(g, p) /\ poly = PolyCall(g, p)
    /\ simPc = "off"
    /\ ways = <<>>
    /\ edges = <<>>
    /\ outEdges = <<>>
    /\ vehicles = <<>>
    /\ dt = 0
    /\ pending = {}
    /\ counter = 0
    /\ tickNo = 0
    /\ sent = <<>>
    /\ twin = <<>>
    /\ simSignal = FALSE

\* The call returns its point.
Interpolate ==
    /\ poly.point = <<>>
    /\ poly' = [poly EXCEPT !.point = interpolate_along_polyline(poly.geometry, poly.progress)]
    /\ UNCHANGED <<simPc, ways, edges, outEdges, vehicles, dt, pending, counter, tickNo,
                   sent, twin, simSignal>>
    /\ UNCHANGED <<ingestVars, apiVars>>

\* The caller calls again for the same geometry, with another progress.
NextCall ==
    /\ poly.point # <<>>
    /\ \E p \in Progresses :
          ExactTarget(poly.geometry, p) /\ poly' = PolyCall(poly.geometry, p)
    /\ UNCHANGED <<simPc, ways, edges, outEdges, vehicles, dt, pending, counter, tickNo,
                   sent, twin, simSignal>>
    /\ UNCHANGED <<ingestVars, apiVars>>

PolyNext ==
    \/ Interpolate
    \/ NextCall

PolySpecInit == PolyInit /\ IngestInit /\ ApiIdle

PolySpec == PolySpecInit /\ [][PolyNext]_vars

\* The street n1 -> n2 -> n3 with edge A of length 100 and edge B of length 50.
TraceMap == <<Way(20, <<21, 22, 23>>, "residential")>>

\* Target speeds of the vehicles next to car_0 on the street.
TraceSpeeds == {25, 40}

\* The simulator after the spawn on the street: car_0 at the start of edge A
\* with target speed 25, the other vehicles on either edge.
TraceInit ==
    /\ simPc = "tick"
    /\ ways = TraceMap
    /\ edges = LoadEdges(ways)
    /\ outEdges = BuildOutEdges(edges, Len(edges))
    /\ \E pick \in [0..(SpawnCount - 1) -> 0..1],
          speed \in [0..(SpawnCount - 1) -> TraceSpeeds] :
          /\ pick[0] = 0
          /\ speed[0] = 25
          /\ vehicles = [k \in 1..SpawnCount |->
                           [id |-> "car_" \o ToString(k - 1),
                            pos |-> edges[pick[k - 1] + 1].geometry[1],
                            edge_index |-> pick[k - 1],
                            distance |-> 0,
                            velocity |-> <<0, 0>>,
                            target_speed |-> speed[k - 1]]]
    /\ dt = 0
    /\ pending = {}
    /\ counter = 0
    /\ tickNo = 0
    /\ sent = <<>>
    /\ twin = <<>>
    /\ simSignal = FALSE
    /\ poly = NoPoly

\* The loop of main() with an elapsed time that makes DeltaTime 1.0 in each
\* tick; the ticks are counted without wrapping.
TraceTickStart ==
    /\ simPc = "tick"
    /\ tickNo < MaxTraceTicks
    /\ dt' = 1
    /\ simPc' = "systems"
    /\ pending' = Systems
    /\ tickNo' = tickNo + 1
    /\ sent' = <<>>
    /\ UNCHANGED <<simSignal, poly, ways, edges, outEdges, vehicles, counter, twin>>
    /\ UNCHANGED <<ingestVars, apiVars>>

TraceNext ==
    \/ TraceTickStart
    \/ MovementSystem
    \/ SyncPositionSystem
    \/ BroadcastSystem

TraceSpecInit == TraceInit /\ IngestInit /\ ApiIdle

TraceSpec == TraceSpecInit /\ [][TraceNext]_vars

\* Two runs of the simulator on the same file, side by side. Each run draws
\* from its own rand::thread_rng(), seeded by the operating system: the program
\* takes no seed, so nothing ties the draws of one run to those of the other.
TwinSpawn ==
    /\ simPc = "spawn"
    /\ IF Len(edges) = 0
       THEN vehicles' = <<>> /\ twin' = <<>>
       ELSE \E pick, pick2 \in [0..(SpawnCount - 1) -> 0..(Len(edges) - 1)],
               speed, speed2 \in [0..(SpawnCount - 1) -> Speeds] :
               /\ vehicles' = Spawned(pick, speed)
               /\ twin' = Spawned(pick2, speed2)
    /\ simPc' = "tick"
    /\ UNCHANGED <<simSignal, poly, ways, edges, outEdges, dt, pending, counter, tickNo, sent>>
    /\ UNCHANGED <<ingestVars, apiVars>>

\* The same tick in both runs, with the same DeltaTime.
TwinTickStart ==
    /\ simPc = "tick"
    /\ tickNo < MaxTwinTicks
    /\ dt' \in Dts
    /\ tickNo' = tickNo + 1
    /\ simPc' = "systems"
    /\ UNCHANGED <<simSignal, poly, ways, edges, outEdges, vehicles, pending, counter, sent, twin>>
    /\ UNCHANGED <<ingestVars, apiVars>>

\* movement_system in both runs, each with its own rand::random() values.
TwinMovement ==
    /\ simPc = "systems"
    /\ \E rnd \in [1..Len(vehicles) -> Rands], rnd2 \in [1..Len(twin) -> Rands] :
          /\ vehicles' = [k \in 1..Len(vehicles) |-> Moved(vehicles[k], rnd[k])]
          /\ twin' = [k \in 1..Len(twin) |-> Moved(twin[k], rnd2[k])]
    /\ simPc' = "tick"
    /\ UNCHANGED <<simSignal, poly, ways, edges, outEdges, dt, pending, counter, tickNo, sent>>
    /\ UNCHANGED <<ingestVars, apiVars>>

TwinNext ==
    \/ TwinSpawn
    \/ TwinTickStart
    \/ TwinMovement

TwinSpec == SimSpecInit /\ [][TwinNext]_vars

\* --------------------------------------------------- simulator properties

\* C9: for every vehicle, after spawn and after every tick,
\* 0 <= distance <= edges[edge_index].length.
DistanceWithinEdge ==
    \A k \in 1..Len(vehicles) :
        /\ vehicles[k].edge_index + 1 \in DOMAIN edges
        /\ 0 <= vehicles[k].distance
        /\ vehicles[k].distance <= edges[vehicles[k].edge_index + 1].length

\* A fast vehicle stands clamped at the end of a dead-end edge after a long tick.
DistanceWithinEdgeWitness ==
    /\ simPc = "tick"
    /\ dt = 1
    /\ \E k \in 1..Len(vehicles) :
          LET road == edges[vehicles[k].edge_index + 1]
          IN /\ vehicles[k].distance = road.length
             /\ road.length > 0
             /\ road.end \notin DOMAIN outEdges
             /\ vehicles[k].target_speed = 2

\* C10: for every vehicle, after spawn and after every tick,
\* 0 <= edge_index < edges.len().
EdgeIndexValid ==
    \A k \in 1..Len(vehicles) :
        vehicles[k].edge_index \in 0..(Len(edges) - 1)

\* A vehicle has moved through an intersection onto the last edge of the graph.
EdgeIndexValidWitness ==
    /\ simPc = "tick"
    /\ dt > 0
    /\ \E k \in 1..Len(vehicles) :
          /\ vehicles[k].edge_index = Len(edges) - 1
          /\ vehicles[k].distance = 0
          /\ edges[Len(edges)].length > 0
          /\ \E j \in 1..Len(vehicles) : j # k /\ vehicles[j].distance > 0

\* C11: in every tick movement_system runs first, sync_position_system second
\* and broadcast_system third, so that after the tick the Position of every
\* vehicle, and every coordinate sent in the tick, is the one that belongs to
\* the GraphPosition movement_system wrote in that tick.
SystemsRunInFixedOrder ==
    /\ "sync" \notin pending => "movement" \notin pending
    /\ "broadcast" \notin pending => "sync" \notin pending
    /\ (simPc = "tick" /\ tickNo > 0) =>
          \A k \in 1..Len(vehicles) :
              /\ vehicles[k].pos = SyncedPos(vehicles[k])
              /\ \A m \in {sent[i] : i \in DOMAIN sent} :
                    /\ m.payload[2][k].longitude = SyncedPos(vehicles[k])[1]
                    /\ m.payload[2][k].latitude = SyncedPos(vehicles[k])[2]

\* C12: on each emitting tick broadcast_system hands the producer one record
\* per vehicle, each on the topic the ingest consumer subscribes to, each a
\* VehiclePosition, each keyed by the vehicle_id of its vehicle.
OneRecordPerVehicle ==
    (simPc \in {"tick", "systems"} /\ tickNo = BroadcastEvery
       /\ "broadcast" \notin pending) =>
        /\ Len(sent) = Len(vehicles)
        /\ \A i \in DOMAIN sent :
              /\ sent[i].topic = SubscribedTopic
              /\ sent[i].key = vehicles[i].id
              /\ DecodeOk(sent[i].payload)
              /\ Decode(sent[i].payload).vehicle_id = vehicles[i].id

\* broadcast_system has run in the tick numbered tickNo.
BroadcastRan ==
    simPc \in {"tick", "systems"} /\ tickNo > 0 /\ "broadcast" \notin pending

\* C13 as stated: broadcast_system publishes on exactly the ticks numbered
\* 5, 10, 15, ... and on no other tick, and its counter is within 0..4 after
\* every run.
EmitsOnEveryFifthTick ==
    /\ counter \in 0..(BroadcastEvery - 1)
    /\ BroadcastRan => (sent # <<>> <=> tickNo = BroadcastEvery)

\* C13: broadcast_system publishes on exactly the ticks numbered 5, 10, 15, ...
\* when the world holds a vehicle and on no other tick, publishes nothing at all
\* when it holds none, and its counter is within 0..4 after every run (after
\* the run of tick n it is n mod 5).
EmitsOnEveryFifthTickWithVehicles ==
    /\ counter \in 0..(BroadcastEvery - 1)
    /\ BroadcastRan => (sent # <<>> <=> (tickNo = BroadcastEvery /\ vehicles # <<>>))
    /\ BroadcastRan => counter = tickNo % BroadcastEvery

\* The run of broadcast_system in a tick whose number is a multiple of five has
\* published and reset the counter, the other two systems still to run.
EmitsOnEveryFifthTickWitness ==
    /\ BroadcastRan
    /\ tickNo = BroadcastEvery
    /\ pending = {"movement", "sync"}
    /\ Len(sent) = 1
    /\ counter = 0
    /\ Len(vehicles) = SpawnCount

\* ------------------------------------------------------------ API service

\* The payloads the k-th message on vehicles:update may carry: a text, or bytes
\* that are not valid UTF-8.
PubPayloads(k) ==
    { [utf8 |-> TRUE, bytes |-> "m" \o ToString(k)],
      [utf8 |-> FALSE, bytes |-> "x" \o ToString(k)] }

\* msg.get_payload::<String>()
PayloadOk(p) == p.utf8

PayloadString(p) == p.bytes

\* road.id as u64; the way ids of the maps are not negative.
AsU64(id) == id

\* A /map that shows the major roads only.
ForMapMajor(highway_type) == highway_type \in {"motorway", "trunk", "primary"}

\* The matches!() of the filter over road_graph.edges.
ForMap(highway_type) ==
    highway_type \in {"motorway", "trunk", "primary", "secondary", "tertiary",
                      "residential", "service", "living_street"}

\* map_points: the edges that pass the filter, as Road { id, geometry }.
MapPointsOf(es) ==
    LET kept == SelectSeq(es, LAMBDA road : ForMap(road.highway_type))
    IN [i \in 1..Len(kept) |->
           [id |-> AsU64(kept[i].id), geometry |-> kept[i].geometry]]

\* The files the API may be started on: the ring with its spur, and the file
\* without a drivable way.
ApiMaps == {w \in Maps : w[1].highway \in {"primary", "footway"}}

\* main() before the map is loaded.
ApiInit ==
    /\ apiPc = "start"
    /\ apiEdges = <<>>
    /\ mapPoints = <<>>
    /\ totalRoads = 0
    /\ mapResp = <<>>
    /\ subPc = "off"
    /\ inbound = <<>>
    /\ chan = <<>>
    /\ vstate = [v \in Viewers |-> "none"]
    /\ next = [v \in Viewers |-> 0]
    /\ held = [v \in Viewers |-> ""]
    /\ open = [v \in Viewers |-> FALSE]
    /\ got = [v \in Viewers |-> <<>>]
    /\ subAt = [v \in Viewers |-> <<0, 0>>]
    /\ endedBy = [v \in Viewers |-> "none"]

\* main(): the map is loaded (RoadGraph::default() when that fails), map_points
\* is computed, the channel created, subscribe_redis spawned, the router served.
ApiStartup ==
    /\ apiPc = "start"
    /\ \E w \in ApiMaps, loaded \in BOOLEAN :
          apiEdges' = IF loaded THEN LoadEdges(w) ELSE <<>>
    /\ mapPoints' = MapPointsOf(apiEdges')
    /\ totalRoads' = Len(apiEdges')
    /\ subPc' = "connect"
    /\ apiPc' = "serving"
    /\ UNCHANGED <<mapResp, inbound, chan, vstate, next, held, open, got, subAt, endedBy>>
    /\ UNCHANGED <<ingestVars, simVars>>

\* get_map
GetMap ==
    /\ apiPc = "serving"
    /\ mapResp' = <<mapPoints>>
    /\ UNCHANGED <<apiPc, apiEdges, mapPoints, totalRoads, subPc, inbound, chan,
                   vstate, next, held, open, got, subAt, endedBy>>
    /\ UNCHANGED <<ingestVars, simVars>>

\* subscribe_redis up to its loop: client, connection, subscribe; any failure
\* ends the task.
RedisSubscribe ==
    /\ subPc = "connect"
    /\ \E ok \in BOOLEAN : subPc' = IF ok THEN "listen" ELSE "failed"
    /\ UNCHANGED <<apiPc, apiEdges, mapPoints, totalRoads, mapResp, inbound, chan,
                   vstate, next, held, open, got, subAt, endedBy>>
    /\ UNCHANGED <<ingestVars, simVars>>

\* One turn of subscribe_redis's loop: a payload that is a String is sent on
\* the broadcast channel, any other is logged and skipped.
OnMessage ==
    /\ subPc = "listen"
    /\ Len(inbound) < MaxPubs
    /\ \E p \in PubPayloads(Len(inbound) + 1) :
          /\ inbound' = Append(inbound, p)
          /\ chan' = IF PayloadOk(p) THEN Append(chan, PayloadString(p)) ELSE chan
    /\ UNCHANGED <<apiPc, apiEdges, mapPoints, totalRoads, mapResp, subPc,
                   vstate, next, held, open, got, subAt, endedBy>>
    /\ UNCHANGED <<ingestVars, simVars>>

\* The message stream ends: "Redis connection lost!", the task returns.
ConnectionLost ==
    /\ subPc = "listen"
    /\ subPc' = "lost"
    /\ UNCHANGED <<apiPc, apiEdges, mapPoints, totalRoads, mapResp, inbound, chan,
                   vstate, next, held, open, got, subAt, endedBy>>
    /\ UNCHANGED <<ingestVars, simVars>>

\* A receiver that starts at the oldest value the channel still retains.
SubscribeAtOldest(ch) ==
    IF Len(ch) > ChannelCapacity THEN Len(ch) - ChannelCapacity ELSE 0

\* state.tx.subscribe(): the new receiver starts behind the last value sent.
SubscribeAt(ch) == Len(ch)

\* ws_handler and the head of handle_socket: state.tx.subscribe().
WsConnect(v) ==
    /\ apiPc = "serving"
    /\ vstate[v] = "none"
    /\ vstate' = [vstate EXCEPT ![v] = "recv"]
    /\ next' = [next EXCEPT ![v] = SubscribeAt(chan)]
    /\ open' = [open EXCEPT ![v] = TRUE]
    /\ subAt' = [subAt EXCEPT ![v] = <<Len(chan), Len(inbound)>>]
    /\ UNCHANGED <<apiPc, apiEdges, mapPoints, totalRoads, mapResp, subPc, inbound,
                   chan, held, got, endedBy>>
    /\ UNCHANGED <<ingestVars, simVars>>

\* The client goes away; handle_socket never reads from the socket.
ClientDisconnect(v) ==
    /\ vstate[v] \in {"recv", "send"}
    /\ open[v]
    /\ open' = [open EXCEPT ![v] = FALSE]
    /\ UNCHANGED <<apiPc, apiEdges, mapPoints, totalRoads, mapResp, subPc, inbound,
                   chan, vstate, next, held, got, subAt, endedBy>>
    /\ UNCHANGED <<ingestVars, simVars>>

\* The receiver's next value has been overwritten in the channel's buffer.
Lagging(v) == Len(chan) - next[v] > ChannelCapacity

\* A channel that closes when the subscribe task is gone.
ChannelClosedWithTask == subPc \in {"failed", "lost"}

\* All senders dropped: AppState.tx lives as long as the router.
ChannelClosed == FALSE

\* A handler that goes on receiving after an Err from recv().
OnRecvErrResume == "recv"

\* `while let Ok(msg) = rx.recv().await`: an Err ends the loop and the task.
OnRecvErr == "ended"

\* A receiver that hands out the newest value of the channel.
RecvLatest(v) == chan[Len(chan)]

\* The value recv() returns to a receiver that has not lagged: the oldest one
\* it has not seen.
RecvValue(v) == chan[next[v] + 1]

\* rx.recv().await of handle_socket returns.
HandlerRecv(v) ==
    /\ vstate[v] = "recv"
    /\ IF Lagging(v)
       THEN /\ vstate' = [vstate EXCEPT ![v] = OnRecvErr]
            /\ endedBy' = [endedBy EXCEPT ![v] = "lagged"]
            /\ UNCHANGED <<next, held>>
       ELSE IF next[v] < Len(chan)
       THEN /\ held' = [held EXCEPT ![v] = RecvValue(v)]
            /\ next' = [next EXCEPT ![v] = next[v] + 1]
            /\ vstate' = [vstate EXCEPT ![v] = "send"]
            /\ UNCHANGED endedBy
       ELSE /\ ChannelClosed
            /\ vstate' = [vstate EXCEPT ![v] = OnRecvErr]
            /\ endedBy' = [endedBy EXCEPT ![v] = "closed"]
            /\ UNCHANGED <<next, held>>
    /\ UNCHANGED <<apiPc, apiEdges, mapPoints, totalRoads, mapResp, subPc, inbound,
                   chan, open, got, subAt>>
    /\ UNCHANGED <<ingestVars, simVars>>

\* socket.send(Message::Text(msg)).await of handle_socket returns: the frame
\* reaches a connected client; once the client is gone the send fails and the
\* loop breaks, unless the transport still takes the frame.
HandlerSend(v) ==
    /\ vstate[v] = "send"
    /\ IF open[v]
       THEN /\ got' = [got EXCEPT ![v] = Append(@, held[v])]
            /\ vstate' = [vstate EXCEPT ![v] = "recv"]
            /\ UNCHANGED endedBy
       ELSE \E taken \in BOOLEAN :
               /\ vstate' = [vstate EXCEPT ![v] = IF taken THEN "recv" ELSE "ended"]
               /\ endedBy' = [endedBy EXCEPT ![v] = IF taken THEN @ ELSE "send"]
               /\ UNCHANGED got
    /\ UNCHANGED <<apiPc, apiEdges, mapPoints, totalRoads, mapResp, subPc, inbound,
                   chan, next, held, open, subAt>>
    /\ UNCHANGED <<ingestVars, simVars>>

Connect == \E v \in Viewers : WsConnect(v)

Disconnect == \E v \in Viewers : ClientDisconnect(v)

Recv == \E v \in Viewers : HandlerRecv(v)

Send == \E v \in Viewers : HandlerSend(v)

ApiNext ==
    \/ ApiStartup
    \/ GetMap
    \/ RedisSubscribe
    \/ OnMessage
    \/ ConnectionLost
    \/ Connect
    \/ Disconnect
    \/ Recv
    \/ Send

ApiSpecInit == ApiInit /\ IngestInit /\ SimIdle

ApiSpec == ApiSpecInit /\ [][ApiNext]_vars

\* The tokio runtime runs every task that can go on: a handler whose recv()
\* or send() can return is not left waiting for ever. Nothing obliges the
\* publisher, the clients or the KV store to act.
ApiFairness ==
    \A v \in Viewers : WF_vars(HandlerRecv(v)) /\ WF_vars(HandlerSend(v))

ApiFairSpec == ApiSpecInit /\ [][ApiNext]_vars /\ ApiFairness

\* ------------------------------------------------- API service properties

IsPrefix(t, u) == Len(t) <= Len(u) /\ \A i \in 1..Len(t) : t[i] = u[i]

\* The payloads received on vehicles:update since viewer v subscribed.
InboundSince(v) ==
    [i \in 1..(Len(inbound) - subAt[v][2]) |-> inbound[subAt[v][2] + i].bytes]

\* The String payloads among them.
StringsSince(v) ==
    LET since == [i \in 1..(Len(inbound) - subAt[v][2]) |-> inbound[subAt[v][2] + i]]
        strings == SelectSeq(since, LAMBDA p : p.utf8)
    IN [i \in 1..Len(strings) |-> strings[i].bytes]

\* Viewer v is connected and its handler waits for a value not yet sent.
CaughtUp(v) == vstate[v] = "recv" /\ open[v] /\ next[v] = Len(chan)

LaggedViewerDropped ==
    /\ [](\A v \in Viewers :
            /\ endedBy[v] = "lagged" =>
                  vstate[v] = "ended" /\ Len(chan) - next[v] > ChannelCapacity
            /\ (vstate[v] = "recv" /\ ~Lagging(v)) =>
                  IsPrefix(got[v], SubSeq(chan, subAt[v][1] + 1, Len(chan)))
            /\ CaughtUp(v) => got[v] = SubSeq(chan, subAt[v][1] + 1, Len(chan)))
    /\ [][\A v \in Viewers :
            (vstate[v] = "recv" /\ Lagging(v) /\ vstate'[v] # "recv") =>
                /\ vstate'[v] = "ended"
                /\ endedBy'[v] = "lagged"
                /\ got'[v] = got[v]
                /\ \A w \in Viewers \ {v} :
                      /\ vstate'[w] = vstate[w]
                      /\ next'[w] = next[w]
                      /\ got'[w] = got[w]
                      /\ open'[w] = open[w]]_vars

\* One viewer was dropped for lagging before it was sent anything; the other
\* is connected and has been sent every value of the channel.
LaggedViewerDroppedWitness ==
    \E v, w \in Viewers :
        /\ v # w
        /\ endedBy[v] = "lagged"
        /\ got[v] = <<>>
        /\ open[v]
        /\ CaughtUp(w)
        /\ Len(got[w]) = MaxPubs

\* C17: once the pub/sub connection is lost the subscribe task has ended for
\* good and no value enters the broadcast channel any more; losing the
\* connection ends no handler task and closes no socket, and a connected
\* viewer whose handler has caught up stays as it is, sent nothing further.
SubscribeTaskNotRestarted ==
    /\ [][subPc = "lost" => (subPc' = "lost" /\ chan' = chan /\ inbound' = inbound)]_vars
    /\ [][subPc' # subPc => (vstate' = vstate /\ open' = open /\ got' = got)]_vars
    /\ [][\A v \in Viewers :
            (subPc = "lost" /\ CaughtUp(v) /\ open'[v]) =>
                (vstate'[v] = "recv" /\ got'[v] = got[v])]_vars
    /\ [](\A v \in Viewers : endedBy[v] \in {"none", "lagged", "send"})

\* The connection was lost after a value was sent to two connected viewers,
\* whose handlers wait for the next one.
SubscribeTaskNotRestartedWitness ==
    /\ subPc = "lost"
    /\ \A v \in Viewers : CaughtUp(v) /\ got[v] # <<>>

\* C16: in every execution, a viewer whose client has disconnected has its
\* handler task ended (its receiver dropped) at some later time.
DisconnectReleasesSubscription ==
    \A v \in Viewers :
        (vstate[v] \in {"recv", "send"} /\ ~open[v]) ~> (vstate[v] = "ended")

\* The edges of the loaded graph the loader's is_drivable() accepts.
DrivableEdges == SelectSeq(apiEdges, LAMBDA road : is_drivable(road.highway_type))

\* C18: map_points is set at startup and never changes; it has one entry per
\* drivable edge of the loaded graph, in the order of the edges, with the
\* edge's id and geometry; the body of every /map response is that value, and
\* it is empty when the graph has no edges.
MapIsStartupSnapshot ==
    /\ [][apiPc = "serving" => mapPoints' = mapPoints /\ apiEdges' = apiEdges]_vars
    /\ [](apiPc = "serving" =>
            /\ Len(mapPoints) = Len(DrivableEdges)
            /\ \A i \in DOMAIN mapPoints :
                  /\ mapPoints[i].id = DrivableEdges[i].id
                  /\ mapPoints[i].geometry = DrivableEdges[i].geometry
            /\ apiEdges = <<>> => mapPoints = <<>>)
    /\ [](mapResp # <<>> => mapResp = <<mapPoints>>)

\* /map has answered with the five edges of the ring and its spur while a
\* viewer is connected and pub/sub messages have been forwarded.
MapIsStartupSnapshotWitness ==
    /\ mapResp # <<>>
    /\ Len(mapResp[1]) = 5
    /\ \E i \in 1..5 : apiEdges[i].highway_type = "service"
    /\ \E v \in Viewers : got[v] # <<>>
    /\ Len(chan) >= 2

\* The node ids that occur in the file or in the adjacency list.
NodeIds == DOMAIN NodePos \cup DOMAIN outEdges \cup {edges[i].end : i \in DOMAIN edges}

\* C19: in the loaded RoadGraph, for every edge e and node id v, v = e.start
\* if and only if the index of e is in out_edges[v]; it is there exactly once,
\* and out_edges[v] holds nothing but indices of edges that start at v.
OutEdgesExact ==
    /\ \A i \in DOMAIN edges : \A v \in NodeIds :
          /\ v = edges[i].start <=>
                (v \in DOMAIN outEdges /\ \E k \in DOMAIN outEdges[v] : outEdges[v][k] = i - 1)
          /\ v = edges[i].start =>
                Cardinality({k \in DOMAIN outEdges[v] : outEdges[v][k] = i - 1}) = 1
    /\ \A v \in DOMAIN outEdges : \A k \in DOMAIN outEdges[v] :
          /\ outEdges[v][k] + 1 \in DOMAIN edges
          /\ edges[outEdges[v][k] + 1].start = v

\* The ring with its spur is loaded: node 2 has two outgoing edges, of two
\* ways, and node 4, where the spur ends, has none.
OutEdgesExactWitness ==
    /\ Len(edges) = 5
    /\ outEdges[2] = <<1, 4>>
    /\ 4 \notin DOMAIN outEdges
    /\ edges[5].end = 4

\* The (vehicle_id, edge_index, distance) of the vehicles of a run.
Trace(vs) ==
    [k \in 1..Len(vs) |->
        <<vs[k].id, vs[k].edge_index, vs[k].distance>>]

\* C20: two runs on the same graph with the same per-tick dt values have, at
\* every tick, the same (vehicle_id, edge_index, distance) for every vehicle,
\* from the spawn on.
RunsAgree == Trace(twin) = Trace(vehicles)

\* ------------------------------------------------- simulator: interrupt

Range(f) == {f[i] : i \in DOMAIN f}

\* A step in which movement_system runs.
MovementStep == simPc = "systems" /\ "movement" \in pending /\ "movement" \notin pending'

\* C22: vehicles follow the graph. The edge_index of a vehicle changes only in
\* a step of movement_system in which the vehicle reaches the end of its edge
\* e, and then the new edge e' is one of out_edges[edges[e].end], so it starts
\* where e ends, and the distance is exactly 0 whatever was left over.
FollowsTopology ==
    [][\A k \in (DOMAIN vehicles) \cap (DOMAIN vehicles') :
          LET v == vehicles[k]
              w == vehicles'[k]
          IN w.edge_index # v.edge_index =>
               /\ MovementStep
               /\ HasEdge(v.edge_index)
               /\ v.distance + v.target_speed * dt >= EdgeAt(v.edge_index).length
               /\ EdgeAt(v.edge_index).end \in DOMAIN outEdges
               /\ w.edge_index \in Range(outEdges[EdgeAt(v.edge_index).end])
               /\ HasEdge(w.edge_index)
               /\ EdgeAt(w.edge_index).start = EdgeAt(v.edge_index).end
               /\ w.distance = 0]_vars

\* On the ring a vehicle of speed 2 stands at the start of the edge 3 -> 6 after
\* the second tick: it entered the edge 2 -> 3 of length 3 at distance 2 and
\* overshot its end by 1, which is gone.
FollowsTopologyWitness ==
    /\ simPc = "systems"
    /\ "movement" \notin pending
    /\ tickNo = 2
    /\ dt = 1
    /\ Len(edges) = 5
    /\ \E k \in 1..Len(vehicles) :
          /\ vehicles[k].target_speed = 2
          /\ vehicles[k].edge_index = 2
          /\ vehicles[k].distance = 0

\* A vehicle at the end of an edge whose end node has no outgoing edge.
Stalled(v) ==
    /\ HasEdge(v.edge_index)
    /\ ~HasNext(EdgeAt(v.edge_index))
    /\ v.distance = EdgeAt(v.edge_index).length

\* C23: a vehicle that reaches the end of an edge whose end node has no
\* outgoing edge is put at distance == length on that edge, and a vehicle that
\* stands there keeps its edge and its distance in every later step for as
\* long as the simulator runs.
StalledForever ==
    [][\A k \in (DOMAIN vehicles) \cap (DOMAIN vehicles') :
          LET v == vehicles[k]
              w == vehicles'[k]
          IN /\ (/\ MovementStep
                  /\ HasEdge(v.edge_index)
                  /\ ~HasNext(EdgeAt(v.edge_index))
                  /\ v.distance + v.target_speed * dt >= EdgeAt(v.edge_index).length)
                => Stalled(w) /\ w.edge_index = v.edge_index
             /\ Stalled(v) => (w.edge_index = v.edge_index /\ w.distance = v.distance)]_vars

\* On the dead-end street a vehicle of speed 2 stands at the end of the last
\* edge, of length 3, after the movement of the fifth tick; it cannot have got
\* there later than in the third tick with a dt of 1.
StalledForeverWitness ==
    /\ simPc = "systems"
    /\ "movement" \notin pending
    /\ tickNo = 5
    /\ dt = 1
    /\ Len(edges) = 2
    /\ \E k \in 1..Len(vehicles) :
          /\ vehicles[k].target_speed = 2
          /\ vehicles[k].edge_index = 1
          /\ vehicles[k].distance = 3
          /\ Stalled(vehicles[k])

\* ------------------------------------------------- simulator: traversal

\* (edge_index, distance) of car_0 after ticks 1 to 5 on the street.
ExpectedGraphPos == <<<<0, 25>>, <<0, 50>>, <<0, 75>>, <<1, 0>>, <<1, 25>>>>

\* The GraphPosition of car_0 after each of the first five ticks.
GraphPosTrace ==
    (simPc = "tick" /\ tickNo \in 1..5) =>
        <<vehicles[1].edge_index, vehicles[1].distance>> = ExpectedGraphPos[tickNo]

\* C24: on the street A = (n1 -> n2, length 100), B = (n2 -> n3, length 50),
\* with car_0 at (A, 0), target speed 25 and dt 1.0, the state after ticks 1 to
\* 5 is (A,25), (A,50), (A,75), (B,0), (B,25), the Position after tick 4 is
\* the start of B, (100, 0), and after tick 5 it is (100, 25).
EdgeTraversalTrace ==
    /\ GraphPosTrace
    /\ (simPc = "tick" /\ tickNo = 4) => vehicles[1].pos = <<100, 0>>
    /\ (simPc = "tick" /\ tickNo = 5) => vehicles[1].pos = <<100, 25>>

\* ------------------------------------------------- simulator: polyline

\* Arc length of the polyline from its first point to its i-th point.
ArcLengthTo(g, i) == TotalLength(SubSeq(g, 1, i))

\* pt lies on the segment p-q at distance r from p.
OnSegmentAt(p, q, r, pt) ==
    /\ SegLength(p, pt) = r
    /\ SegLength(pt, q) = SegLength(p, q) - r

\* pt is the point at arc length s along g: it lies on a sub-segment whose
\* span of arc length contains s, at the distance from the sub-segment's start
\* that s leaves over.
AtArcLength(g, s, pt) ==
    \E i \in 1..(Len(g) - 1) :
        /\ ArcLengthTo(g, i) <= s
        /\ s <= ArcLengthTo(g, i + 1)
        /\ OnSegmentAt(g[i], g[i + 1], s - ArcLengthTo(g, i), pt)

\* C25: for a geometry of N >= 2 points and a progress in [0, 1] the result of
\* interpolate_along_polyline is the point at arc length progress * total_length
\* along the polyline; progress 0 gives the first point and progress 1 the
\* last; for (0,0), (3,0), (3,4) and progress 0.5 it is (3, 0.5), in half units
\* (0,0), (6,0), (6,8) and (6, 1).
PolylineInterpolation ==
    poly.point # <<>> =>
        LET g == poly.geometry
            p == poly.progress
        IN /\ Len(g) >= 2
           /\ AtArcLength(g, (p[1] * TotalLength(g)) \div p[2], poly.point)
           /\ p = <<0, 1>> => poly.point = g[1]
           /\ p = <<1, 1>> => poly.point = g[Len(g)]
           /\ (g = <<<<0, 0>>, <<6, 0>>, <<6, 8>>>> /\ p = <<1, 2>>) => poly.point = <<6, 1>>

PolylineInterpolationWitness ==
    /\ poly.geometry = <<<<0, 0>>, <<6, 0>>, <<6, 8>>>>
    /\ poly.progress = <<1, 2>>
    /\ poly.point = <<6, 1>>

\* ------------------------------------------------- simulator: zero-length edge

\* C26: once sync_position_system has run in a tick, the Position of a vehicle
\* on a zero-length edge is geometry[0] of that edge, a well-defined coordinate.
ZeroLengthSyncsToStart ==
    (simPc = "systems" /\ "sync" \notin pending /\ "movement" \in pending) =>
        \A k \in 1..Len(vehicles) :
            EdgeAt(vehicles[k].edge_index).length = 0 =>
                vehicles[k].pos = EdgeAt(vehicles[k].edge_index).geometry[1]

\* ------------------------------------------------- simulator: spawn

\* C27: after the spawn on a graph with at least one edge the world holds
\* exactly `count` vehicles with the distinct ids car_0 .. car_{count-1}, each
\* on an edge with non-empty geometry, at distance 0 and with Position equal
\* to that edge's geometry[0]; on a graph without edges it holds no vehicle.
SpawnCreatesCount ==
    (simPc = "tick" /\ tickNo = 0) =>
        IF Len(edges) = 0
        THEN vehicles = <<>>
        ELSE /\ Len(vehicles) = SpawnCount
             /\ {vehicles[k].id : k \in 1..Len(vehicles)}
                  = {"car_" \o ToString(i) : i \in 0..(SpawnCount - 1)}
             /\ \A k \in 1..Len(vehicles) :
                   /\ vehicles[k].id = "car_" \o ToString(k - 1)
                   /\ HasEdge(vehicles[k].edge_index)
                   /\ EdgeAt(vehicles[k].edge_index).geometry # <<>>
                   /\ vehicles[k].distance = 0
                   /\ vehicles[k].pos = EdgeAt(vehicles[k].edge_index).geometry[1]

\* The spawn has put the vehicles on two edges that start at different points.
SpawnCreatesCountWitness ==
    /\ simPc = "tick"
    /\ tickNo = 0
    /\ Len(vehicles) = SpawnCount
    /\ \E j, k \in 1..Len(vehicles) : vehicles[j].pos # vehicles[k].pos

\* ------------------------------------------------- simulator: stray edge_index

\* A step in which sync_position_system runs.
SyncStep == simPc = "systems" /\ "sync" \in pending /\ "sync" \notin pending'

\* C28: a vehicle whose edge_index is out of bounds is passed over by
\* movement_system and sync_position_system: the run of the system completes,
\* the vehicle's GraphPosition and Position are as before, and every other
\* vehicle is advanced along its edge and has its Position set on that edge.
OutOfBoundsSkipped ==
    [][/\ Len(vehicles') = Len(vehicles)
       /\ (MovementStep \/ SyncStep) => simPc' \in {"systems", "tick"}
       /\ \A k \in 1..Len(vehicles) :
             LET v == vehicles[k]
                 w == vehicles'[k]
                 d == v.distance + v.target_speed * dt
             IN /\ ~HasEdge(v.edge_index) => w = v
                /\ (MovementStep /\ HasEdge(v.edge_index)) =>
                      IF d < EdgeAt(v.edge_index).length
                      THEN w.edge_index = v.edge_index /\ w.distance = d
                      ELSE IF HasNext(EdgeAt(v.edge_index))
                           THEN w.distance = 0
                           ELSE w.distance = EdgeAt(v.edge_index).length
                /\ (SyncStep /\ HasEdge(v.edge_index)
                      /\ EdgeAt(v.edge_index).length > 0) =>
                      OnSegmentAt(EdgeAt(v.edge_index).geometry[1],
                                  EdgeAt(v.edge_index).geometry[2],
                                  v.distance, w.pos)]_vars

\* After a tick of dt 1 the stray vehicle is as it was built while another
\* vehicle has moved along its edge and has its Position there.
OutOfBoundsSkippedWitness ==
    /\ simPc = "tick"
    /\ tickNo = 1
    /\ dt = 1
    /\ ~HasEdge(vehicles[1].edge_index)
    /\ vehicles[1].distance = 1
    /\ vehicles[1].pos = <<7, 7>>
    /\ \E k \in 2..Len(vehicles) :
          /\ vehicles[k].distance > 0
          /\ vehicles[k].pos # EdgeAt(vehicles[k].edge_index).geometry[1]

\* ------------------------------------------------- ingest: hot path steps

\* The record process() is working on has its geo member at its coordinate.
GeoDone == <<GeoMember(CurRec), GeoCoord(CurRec)>> \in geo

\* The record process() is working on has its metadata under its key, TTL 60.
MetaDone == <<MetaKey(CurRec), MetaValue(CurRec), 60>> \in meta

\* The record process() is working on is in the cold buffer or in the table.
ColdDone == Count(buffer, CurRec) + Count(rows, Row(CurRec)) > 0

\* C29: the hot-path steps of process() run in the order geo add, metadata
\* set with TTL 60, publish, each only after the ones before it went through,
\* and they are not transactional: when one of them fails process() returns an
\* error, no later step is executed, and what the cold-path append and the
\* earlier steps did stays as it is.
HotPathNotTransactional ==
    /\ []((branch = "loop" /\ pc \in {"geo", "meta", "publish"}) => ColdDone)
    /\ []((branch = "loop" /\ pc \in {"meta", "publish"}) => GeoDone)
    /\ []((branch = "loop" /\ pc = "publish") => MetaDone)
    /\ [][/\ geo' # geo => (pc = "geo" /\ pc' = "meta")
          /\ meta' # meta => (pc = "meta" /\ pc' = "publish")
          /\ published' # published =>
                (pc = "publish" /\ pc' = "ret" /\ result' = "ok")
          /\ (pc \in {"geo", "meta", "publish"} /\ pc' = "ret" /\ result' = "err") =>
                /\ geo' = geo /\ meta' = meta /\ published' = published
                /\ buffer' = buffer /\ rows' = rows /\ accepted' = accepted
          /\ pc = "ret" =>
                (geo' = geo /\ meta' = meta /\ published' = published)]_vars

\* process() has returned an error from its publish: the record is in the cold
\* store, the geo set and the metadata, and no update for it was published.
HotPathNotTransactionalWitness ==
    /\ branch = "loop"
    /\ pc = "ret"
    /\ result = "err"
    /\ ColdDone
    /\ GeoDone
    /\ MetaDone
    /\ Count(published, UpdatePayload(CurRec)) = 0

\* ------------------------------------------------- ingest: order of rows

\* C30: rows reach the table in the order in which add() was given the
\* records. The buffer is the tail of the accepted records, in their order,
\* also after a failed flush; the INSERTs of a flush follow the buffer; a commit
\* appends the batch behind the rows of the batches before it; and while the
\* consumer loop runs, table and buffer together are the accepted records in
\* the order of their delivery.
RowsInDeliveryOrder ==
    /\ [](IsSuffix(buffer, accepted))
    /\ [](IsPrefix(txn, BatchRows(buffer)))
    /\ []((branch = "loop" /\ pc # "clear")
            => rows \o BatchRows(buffer) = BatchRows(accepted))
    /\ []((branch = "loop" /\ pc = "clear") => rows = BatchRows(accepted))
    /\ [][/\ rows' # rows => rows' = rows \o BatchRows(buffer)
          /\ (pc \in {"begin", "insert", "commit"} /\ pc' = "ret")
                => buffer' = buffer
          /\ (pc = "add" /\ pc' # "add" /\ branch' = "loop")
                => buffer' = Append(buffer, CurRec)]_vars

\* A batch of two failed to flush and went into the table together with the
\* third record at the retry, the three rows in the order of their delivery.
RowsInDeliveryOrderWitness ==
    /\ branch = "loop"
    /\ faults > 0
    /\ Len(accepted) = BatchSize + 1
    /\ rows = BatchRows(accepted)
    /\ rows[1] # rows[BatchSize]
    /\ rows[BatchSize] # rows[BatchSize + 1]

\* ------------------------------------------------- API service: no rewind

\* The values sent on the broadcast channel before viewer v subscribed.
SentBefore(v) == {chan[j] : j \in 1..subAt[v][1]}

\* The values sent on the broadcast channel since viewer v subscribed.
SentSince(v) == {chan[j] : j \in (subAt[v][1] + 1)..Len(chan)}

\* C31: a viewer cannot rewind. Every frame a viewer's socket has been sent,
\* and the value its handler holds for sending, was sent on the broadcast
\* channel after the handler subscribed; nothing sent on the channel before
\* the subscription reaches the viewer, and its receiver never stands before
\* the place where it subscribed.
ViewersCannotRewind ==
    \A v \in Viewers :
        /\ \A i \in DOMAIN got[v] :
              got[v][i] \in SentSince(v) /\ got[v][i] \notin SentBefore(v)
        /\ vstate[v] = "send" =>
              held[v] \in SentSince(v) /\ held[v] \notin SentBefore(v)
        /\ vstate[v] # "none" => next[v] >= subAt[v][1]

\* A viewer that subscribed after the first value was sent on the channel has
\* been sent the values that followed, and not the first one.
ViewersCannotRewindWitness ==
    \E v \in Viewers :
        /\ subAt[v][1] = 1
        /\ Len(chan) = 3
        /\ got[v] = SubSeq(chan, 2, 3)

\* ------------------------------------------------- simulator: frame of a tick

\* A step in which broadcast_system runs.
BroadcastStep ==
    simPc = "systems" /\ "broadcast" \in pending /\ "broadcast" \notin pending'

\* A step of the running simulator after the spawn: the start of a tick or the
\* run of a system.
TickStep == simPc \in {"tick", "systems"} /\ simPc' \in {"tick", "systems"}

\* The GraphPosition of a vehicle.
GraphPositionOf(v) == <<v.edge_index, v.distance>>

\* C32: a tick leaves everything but the positions as it is. No step of a tick
\* adds or removes a vehicle, changes a VehicleId, a TargetSpeed or a Velocity,
\* or changes the RoadGraph; GraphPosition changes only in movement_system,
\* which writes nothing else; Position changes only in sync_position_system,
\* which writes nothing else; the counter changes only in broadcast_system,
\* which writes nothing else in the world.
TickFrame ==
    [][TickStep =>
         /\ Len(vehicles') = Len(vehicles)
         /\ edges' = edges /\ outEdges' = outEdges /\ ways' = ways
         /\ \A k \in 1..Len(vehicles) :
               /\ vehicles'[k].id = vehicles[k].id
               /\ vehicles'[k].target_speed = vehicles[k].target_speed
               /\ vehicles'[k].velocity = vehicles[k].velocity
               /\ GraphPositionOf(vehicles'[k]) # GraphPositionOf(vehicles[k])
                     => MovementStep
               /\ vehicles'[k].pos # vehicles[k].pos => SyncStep
         /\ counter' # counter => BroadcastStep
         /\ MovementStep =>
               (counter' = counter
                  /\ \A k \in 1..Len(vehicles) : vehicles'[k].pos = vehicles[k].pos)
         /\ SyncStep =>
               (counter' = counter
                  /\ \A k \in 1..Len(vehicles) :
                        GraphPositionOf(vehicles'[k]) = GraphPositionOf(vehicles[k]))
         /\ BroadcastStep => vehicles' = vehicles]_vars

\* In the fifth tick all three systems have run: vehicles have moved and have
\* their Position off the start of their edge, the counter is back at 0, and
\* the vehicles are still those of the spawn.
TickFrameWitness ==
    /\ simPc = "tick"
    /\ tickNo = BroadcastEvery
    /\ counter = 0
    /\ Len(vehicles) = SpawnCount
    /\ \A k \in 1..Len(vehicles) :
          /\ vehicles[k].id = "car_" \o ToString(k - 1)
          /\ vehicles[k].velocity = <<0, 0>>
          /\ vehicles[k].distance > 0
          /\ vehicles[k].pos # EdgeAt(vehicles[k].edge_index).geometry[1]

\* ------------------------------------------------- ingest: record conservation

\* No call of add() or flush() is under way: the consumer loop is outside the
\* flush, or the service has exited.
WriterAtRest == pc \notin {"begin", "insert", "commit", "clear"}

\* C33: whenever no call of the BatchWriter is under way, every record passed
\* to add() is in exactly one of the buffer and the committed rows, once per
\* call of add(): buffer and table together hold it as often as it was added.
RecordConservation ==
    WriterAtRest =>
        \A r \in Records :
            Count(buffer, r) + Count(rows, Row(r)) = Count(accepted, r)

\* ------------------------------------------------- ingest: cold failure

\* A step in which the flush started by add() fails inside process().
AddFails ==
    /\ branch = "loop"
    /\ branch' = "loop"
    /\ pc \in {"begin", "insert", "commit"}
    /\ faults' > faults

\* C34: when add() fails inside process(record), process() returns the error
\* at once: the geo set, the metadata and the published updates are not written
\* in that call, neither at the failure nor before the next message is taken,
\* and the record stays in the cold buffer, as its last element.
ColdFailureSkipsHotPath ==
    [][/\ AddFails =>
             /\ pc' = "ret" /\ result' = "err"
             /\ geo' = geo /\ meta' = meta /\ published' = published
             /\ buffer' = buffer
             /\ buffer # <<>> /\ buffer[Len(buffer)] = CurRec
       /\ (pc = "ret" /\ result = "err") =>
             /\ geo' = geo /\ meta' = meta /\ published' = published
             /\ pc' \notin {"geo", "meta", "publish"}]_vars

\* process() has returned the error of add() for a record of a vehicle that
\* has no geo member and no published update; the record closes the buffer.
ColdFailureSkipsHotPathWitness ==
    /\ branch = "loop"
    /\ pc = "ret"
    /\ result = "err"
    /\ BufferFull(buffer)
    /\ buffer[Len(buffer)] = CurRec
    /\ \A e \in geo : e[1] # GeoMember(CurRec)
    /\ \A e \in meta : e[1] # MetaKey(CurRec)
    /\ Count(published, UpdatePayload(CurRec)) = 0
    /\ geo # {}

\* ------------------------------------------------- ingest: notify after write

\* The geo set holds the position an update announces for its vehicle.
Announced(u) == <<u.id, <<u.lon, u.lat>>>> \in geo

\* C35: an update is published only by the process() call of its record and
\* only when the geo set and the key vehicle:{id}:meta already hold that
\* record's values; when the call returns, the geo set shows the position the
\* update announces; and since process() calls run one after the other, the
\* geo member of a vehicle is afterwards only ever overwritten by the geo add
\* of a later call, never removed and never set back.
NotifyAfterWrite ==
    /\ []((branch = "loop" /\ pc = "ret" /\ result = "ok") =>
            /\ published # <<>>
            /\ published[Len(published)] = UpdatePayload(CurRec)
            /\ Announced(published[Len(published)])
            /\ MetaDone)
    /\ [][/\ published' # published =>
                /\ published' = Append(published, UpdatePayload(CurRec))
                /\ GeoDone /\ MetaDone
                /\ geo' = geo /\ meta' = meta
          /\ geo' # geo =>
                /\ branch = "loop" /\ pc = "geo"
                /\ geo' = {e \in geo : e[1] # CurRec.vehicle_id}
                            \cup {<<CurRec.vehicle_id, <<CurRec.longitude, CurRec.latitude>>>>}
                /\ published' = published]_vars

\* Two updates with different positions were published for one vehicle, and
\* the geo set shows the position of the second.
NotifyAfterWriteWitness ==
    /\ branch = "loop"
    /\ pc = "ret"
    /\ result = "ok"
    /\ Len(published) = 2
    /\ published[1].id = published[2].id
    /\ published[1].lat # published[2].lat
    /\ Announced(published[2])
    /\ ~Announced(published[1])

====
